---- MODULE Spec2Model ----
(***************************************************************************)
(* A model of SNAPLib/TenXAligner.cpp: the worker                          *)
(* TenXAlignerContext::runIterationThread, which buffers the read pairs of *)
(* a barcode, drives them through the three alignment stages of the        *)
(* cluster aligner with the double-and-retry protocol for the secondary    *)
(* result buffers, filters and emits the results, and cleans up.           *)
(*                                                                         *)
(* The cluster aligner, the filter predicate, the supplier and the writer  *)
(* are collaborators whose code is outside TenXAligner.cpp; they are       *)
(* modelled from the design document and say so where they are defined.    *)
(***************************************************************************)
EXTENDS Integers, Sequences, FiniteSets, TLC

(***************************************************************************)
(* Bounds of the model.                                                    *)
(***************************************************************************)
\* options->maxBarcodeSize (default 60000, "-maxBar"), scaled down.
MaxBarcodeSize == 2

\* The supplier delivers at most one pair more than a batch can hold.
MaxStream == MaxBarcodeSize + 1

Slots == 0 .. (MaxBarcodeSize - 1)

(***************************************************************************)
(* Alignment statuses and reads.                                           *)
(***************************************************************************)
SingleHit == "SingleHit"
MultipleHits == "MultipleHits"
NotFound == "NotFound"
Status == {SingleHit, MultipleHits, NotFound}

InvalidGenomeLocation == "Invalid"

isOneLocation(s) == s = SingleHit

\* A read, reduced to what the worker looks at: whether it is long enough
\* (getDataLength() >= minReadLength) and has few enough Ns
\* (countOfNs() <= maxDist).
GoodRead == [long |-> TRUE, fewNs |-> TRUE]
ShortRead == [long |-> FALSE, fewNs |-> TRUE]
NoisyRead == [long |-> TRUE, fewNs |-> FALSE]

\* reads[k]->getDataLength() >= minReadLength && (int)reads[k]->countOfNs() <= maxDist
IsUseful(read) == read.long /\ read.fewNs

\* The pairs a supplier can deliver: two reads and whether their IDs match.
GoodPair == [r0 |-> GoodRead, r1 |-> GoodRead, idsMatch |-> TRUE]

PairKinds ==
    { GoodPair,
      [r0 |-> GoodRead,  r1 |-> ShortRead, idsMatch |-> TRUE],
      [r0 |-> ShortRead, r1 |-> NoisyRead, idsMatch |-> TRUE],
      [r0 |-> GoodRead,  r1 |-> GoodRead,  idsMatch |-> FALSE] }

\* The streams a supplier can hold: up to MaxStream pairs, at most one of
\* them other than a pair of good reads with matching IDs.
Streams ==
    { s \in UNION { [1 .. n -> PairKinds] : n \in 0 .. MaxStream } :
        Cardinality({ k \in DOMAIN s : s[k] # GoodPair }) <= 1 }

NoRead == [id |-> 0, r0 |-> ShortRead, r1 |-> ShortRead, idsMatch |-> TRUE]

(***************************************************************************)
(* The filter predicate options->passFilter(read, status, tooShort,        *)
(* secondaryAlignment).  A policy says which statuses pass, whether        *)
(* secondary alignments pass, and whether a too-short read passes anyway.  *)
(***************************************************************************)
FilterNone      == [st |-> Status, sec |-> TRUE, short |-> FALSE]
FilterAligned   == [st |-> {SingleHit, MultipleHits}, sec |-> FALSE, short |-> FALSE]
FilterUnaligned == [st |-> {NotFound}, sec |-> TRUE, short |-> TRUE]
FilterSingle    == [st |-> {SingleHit}, sec |-> TRUE, short |-> FALSE]

FilterPolicies == {FilterNone, FilterAligned, FilterUnaligned, FilterSingle}

\* A policy under which only the tooShort flag decides: no status passes.
FilterTooShort == [st |-> {}, sec |-> TRUE, short |-> TRUE]

passFilter(policy, status, tooShort, secondaryAlignment) ==
    \/ policy.short /\ tooShort
    \/ status \in policy.st /\ (secondaryAlignment => policy.sec)

\* The combination without the flag, for comparison.
PassEither(filterBoth, pass0, pass1) == pass0 \/ pass1

\* (options->filterFlags & FilterBothMatesMatch) ? (pass0 && pass1) : (pass0 || pass1)
PassPair(filterBoth, pass0, pass1) ==
    IF filterBoth THEN pass0 /\ pass1 ELSE pass0 \/ pass1

(***************************************************************************)
(* Configuration: what initialize() copies from the options, and the       *)
(* collaborators the worker is given.                                      *)
(***************************************************************************)
DefaultOptions ==
    [ supplier |-> TRUE,            \* generateNewPairedReadSupplier() != NULL
      extension |-> FALSE,          \* extension->runIterationThread() took the work
      index |-> TRUE,               \* index != NULL
      writer |-> TRUE,              \* readWriter != NULL
      ignoreMismatchedIDs |-> FALSE,
      forceSpacing |-> FALSE,
      filter |-> FilterNone,
      filterBoth |-> FALSE,         \* filterFlags & FilterBothMatesMatch
      maxSecondaryAlignmentAdditionalEditDistance |-> 1,
      minPairsPerCluster |-> 10,    \* DEFAULT_MIN_PAIRS_PER_CLUSTER
      maxClusterSpan |-> 100000 ]   \* DEFAULT_MAX_CLUSTER_SPAN

\* The configurations explored: the fast paths with every filter setting, the
\* indexed path with every combination of forceSpacing and filter setting,
\* and the indexed path without a writer, with ID checking off, and with
\* secondary alignments disabled.
Configs ==
    { [DefaultOptions EXCEPT !.supplier = FALSE],
      [DefaultOptions EXCEPT !.extension = TRUE],
      [DefaultOptions EXCEPT !.writer = FALSE],
      [DefaultOptions EXCEPT !.ignoreMismatchedIDs = TRUE] }
    \cup { [DefaultOptions EXCEPT !.index = FALSE, !.writer = w,
                                  !.ignoreMismatchedIDs = g,
                                  !.filter = f, !.filterBoth = b] :
             w \in BOOLEAN, g \in BOOLEAN,
             f \in FilterPolicies \cup {FilterTooShort}, b \in BOOLEAN }
    \cup { [DefaultOptions EXCEPT !.forceSpacing = s, !.filter = f, !.filterBoth = b] :
             s \in BOOLEAN, f \in FilterPolicies, b \in BOOLEAN }
    \cup { [DefaultOptions EXCEPT !.maxSecondaryAlignmentAdditionalEditDistance = -1],
           [DefaultOptions EXCEPT !.maxSecondaryAlignmentAdditionalEditDistance = -1,
                                  !.forceSpacing = TRUE, !.filter = FilterAligned] }

(***************************************************************************)
(* State of one run of runIterationThread.                                 *)
(***************************************************************************)
VARIABLES
    opt,                     \* the configuration of the run
    argv, argn,              \* the command line and the position parsed next
    threads, barrier,        \* the workers of the run and their startup barrier
    hist,                    \* a call of recordAlignTogetherMapqAndTime
    pc,                      \* where the worker is
    supplier,                \* "none", "live" or "deleted"
    stream,                  \* the pairs the supplier holds
    nDelivered,              \* pairs the supplier has delivered so far
    arena,                   \* the BigAllocator: "none", "live" or "released"
    live,                    \* blocks obtained from BigAlloc and not yet released
    badFree,                 \* BigDealloc was given something that is not a live block
    reads,                   \* reads[2p], reads[2p+1], as one pair per slot p
    useful0, useful1,
    totalPairsForBarcode,
    pairNotFinished,
    maxPairedSecondaryHits, maxSingleSecondaryHits,
    results,                 \* results[p]: the block and the records in it
    singleSecondaryResults,  \* singleSecondaryResults[p]: the block and its records
    nSecondaryResults,       \* the array of counters
    nSecBase,                \* where the pointer nSecondaryResults points (0: at the array)
    nSingleSecondaryResults, \* per slot, the two counters of the pair
    tracker,                 \* what the aligners hold for each pair
    pairIdx, i, firstIsPrimary,
    written,                 \* the writePairs calls made so far
    stats,
    calls                    \* which stages were called, and what they last returned

vars == << opt, argv, argn, threads, barrier, hist, pc, supplier, stream, nDelivered, arena, live, badFree, reads,
           useful0, useful1, totalPairsForBarcode, pairNotFinished,
           maxPairedSecondaryHits, maxSingleSecondaryHits, results,
           singleSecondaryResults, nSecondaryResults, nSecBase,
           nSingleSecondaryResults, tracker, pairIdx, i, firstIsPrimary,
           written, stats, calls >>

memVars == << arena, live, badFree >>
batchVars == << reads, useful0, useful1, totalPairsForBarcode >>
bufVars == << pairNotFinished, maxPairedSecondaryHits, maxSingleSecondaryHits,
              results, singleSecondaryResults, nSecondaryResults, nSecBase,
              nSingleSecondaryResults, tracker >>
emitVars == << pairIdx, i, firstIsPrimary >>

NoBuffer == [block |-> 0, bytes |-> 0, data |-> << >>]
NoTracker == [placed |-> FALSE, paired |-> << >>, single |-> << NotFound, NotFound >>,
              singles |-> << << >>, << >> >>]

\* A number b * 2^s.  The arguments of recordAlignTogetherMapqAndTime are 32
\* and 64 bits wide; they are kept in this form, halved exactly.
Scaled(b, s) == [b |-> b, s |-> s]

\* No call of recordAlignTogetherMapqAndTime is followed.
NoRecording == [state |-> "none", mapq |-> 0, timeInNanos |-> Scaled(0, 0),
                nSmallHits |-> Scaled(0, 0), nLVCalls |-> Scaled(0, 0),
                timeBucket |-> 0, nHitsBucket |-> 0, nLVCallsBucket |-> 0]

\* The run of one worker is followed on its own: no other worker, no barrier.
NoThreads == << >>
NoBarrier == [msvc |-> FALSE, useTimingBarrier |-> FALSE, index |-> TRUE,
              nThreadsAllocatingMemory |-> 0, allowed |-> FALSE]

\* No cluster aligner is constructed yet.
NoCluster == [minPairsPerCluster |-> 0, maxClusterSpan |-> 0]

\* Nothing is allocated, read, aligned or written before the worker runs.
Constructed ==
    /\ supplier = "none"
    /\ stream \in Streams
    /\ nDelivered = 0
    /\ arena = "none"
    /\ live = {}
    /\ badFree = FALSE
    /\ reads = [p \in Slots |-> NoRead]
    /\ useful0 = [p \in Slots |-> FALSE]
    /\ useful1 = [p \in Slots |-> FALSE]
    /\ totalPairsForBarcode = 0
    /\ pairNotFinished = [p \in Slots |-> FALSE]
    /\ maxPairedSecondaryHits = [p \in Slots |-> 0]
    /\ maxSingleSecondaryHits = [p \in Slots |-> 0]
    /\ results = [p \in Slots |-> NoBuffer]
    /\ singleSecondaryResults = [p \in Slots |-> NoBuffer]
    /\ nSecondaryResults = [p \in Slots |-> 0]
    /\ nSecBase = 0
    /\ nSingleSecondaryResults = [p \in Slots |-> << 0, 0 >>]
    /\ tracker = [p \in Slots |-> NoTracker]
    /\ pairIdx = 0
    /\ i = 0
    /\ firstIsPrimary = TRUE
    /\ written = << >>
    /\ stats = [totalReads |-> 0, notFound |-> 0, uselessReads |-> 0, filtered |-> 0,
                singleHits |-> 0, multiHits |-> 0]
    /\ calls = [first |-> 0, second |-> FALSE, third |-> FALSE,
                secondDone |-> FALSE, thirdDone |-> FALSE, canary |-> "none",
                cluster |-> NoCluster]

\* The state of a worker that is about to run; the options are in place.
Init ==
    /\ opt \in Configs
    /\ argv = << >>
    /\ argn = 0
    /\ threads = NoThreads
    /\ barrier = NoBarrier
    /\ hist = NoRecording
    /\ pc = "start"
    /\ Constructed

(***************************************************************************)
(* The records handed to the writer.                                       *)
(***************************************************************************)
\* A paired record: which candidate it is (0 is the primary the aligner chose),
\* its score (the edit distance of the pair, relative to the best), and the
\* status and location of each mate.
PairedRecord(cand, s0, s1) ==
    [cand |-> cand, score |-> 0, status |-> << s0, s1 >>,
     location |-> << IF s0 = NotFound THEN InvalidGenomeLocation ELSE "Mapped",
                     IF s1 = NotFound THEN InvalidGenomeLocation ELSE "Mapped" >>]

\* The record of a pair that was not aligned: both NotFound, both Invalid.
UnalignedRecord == PairedRecord(0, NotFound, NotFound)

\* readWriter->writePairs(readerContext, reads, result, nResults, singleResults,
\*                        nSingleResults, firstIsPrimary)
WriteCall(pair, recs, singles, first, batched) ==
    [pair |-> pair.id, recs |-> recs, singles |-> singles,
     firstIsPrimary |-> first, batched |-> batched]

(***************************************************************************)
(* The command line.  TenXAlignerOptions::parse handles the options of the *)
(* 10x aligner and hands every other one to AlignerOptions::parse, which   *)
(* is outside TenXAligner.cpp and is modelled for two of its options.      *)
(***************************************************************************)
MaxArgs == 3

Tokens == {"-fs", "-F", "b", "a", "-I"}

ArgLists == UNION { [1 .. n -> Tokens] : n \in 0 .. MaxArgs }

\* AlignerOptions::parse: "-I" sets ignoreMismatchedIDs, "-F a" selects the
\* aligned-only filter; anything else is not an option.
BaseParse(o, args, n) ==
    IF args[n] = "-I"
    THEN [ok |-> TRUE, opt |-> [o EXCEPT !.ignoreMismatchedIDs = TRUE], n |-> n]
    ELSE IF args[n] = "-F" /\ n + 1 <= Len(args) /\ args[n + 1] = "a"
    THEN [ok |-> TRUE, opt |-> [o EXCEPT !.filter = FilterAligned], n |-> n + 1]
    ELSE [ok |-> FALSE, opt |-> o, n |-> n]

\* atoi(argv[n + 1]): the number a string of digits denotes, 0 for a string
\* that does not start with a digit.
atoi(str) ==
    IF str = "5" THEN 5 ELSE IF str = "9" THEN 9 ELSE 0

\* TenXAlignerOptions::parse(argv, argc, n, done), for the options that set
\* what the worker reads: what it returns, the options and n afterwards.
TenXParse(o, args, n) ==
    IF args[n] = "-fs"
    THEN [ok |-> TRUE, opt |-> [o EXCEPT !.forceSpacing = TRUE], n |-> n]
    ELSE IF args[n] = "-F" /\ n + 1 <= Len(args) /\ args[n + 1] = "b"
    THEN [ok |-> TRUE, opt |-> [o EXCEPT !.filterBoth = TRUE], n |-> n + 1]
    ELSE IF args[n] = "-minCluster"
    THEN IF n + 1 <= Len(args)
         THEN [ok |-> TRUE,
               opt |-> [o EXCEPT !.minPairsPerCluster = atoi(args[n + 1])], n |-> n + 1]
         ELSE [ok |-> FALSE, opt |-> o, n |-> n]
    ELSE IF args[n] = "-maxClusterSpan"
    THEN IF n + 1 <= Len(args)
         THEN [ok |-> TRUE,
               opt |-> [o EXCEPT !.minPairsPerCluster = atoi(args[n + 1])], n |-> n + 1]
         ELSE [ok |-> FALSE, opt |-> o, n |-> n]
    ELSE BaseParse(o, args, n)

\* One call of parse by the loop over the command line; an argument that is
\* not an option ends the run with the usage message.
ParseOption ==
    /\ pc = "parse"
    /\ argn <= Len(argv)
    /\ LET r == TenXParse(opt, argv, argn)
       IN  IF r.ok
           THEN /\ opt' = r.opt
                /\ argn' = r.n + 1
                /\ pc' = "parse"
           ELSE /\ pc' = "usage"
                /\ UNCHANGED << opt, argn >>
    /\ UNCHANGED << argv, threads, barrier, hist, stream, supplier, nDelivered, memVars, batchVars, bufVars,
                    emitVars, written, stats, calls >>

\* The command line is parsed: the worker can run.
ParseDone ==
    /\ pc = "parse"
    /\ argn > Len(argv)
    /\ argv' = << >>
    /\ argn' = 0
    /\ pc' = "start"
    /\ UNCHANGED << opt, threads, barrier, hist, stream, supplier, nDelivered, memVars, batchVars, bufVars,
                    emitVars, written, stats, calls >>

(***************************************************************************)
(* Entry: no supplier, work taken by the extension, or no index.           *)
(***************************************************************************)
NoSupplier ==
    /\ pc = "start"
    /\ ~opt.supplier
    /\ pc' = "done"
    /\ UNCHANGED << opt, argv, argn, threads, barrier, hist, stream, supplier, nDelivered, memVars, batchVars, bufVars, emitVars,
                    written, stats, calls >>

ExtensionRuns ==
    /\ pc = "start"
    /\ opt.supplier /\ opt.extension
    /\ supplier' = "deleted"
    /\ pc' = "done"
    /\ UNCHANGED << opt, argv, argn, threads, barrier, hist, stream, nDelivered, memVars, batchVars, bufVars, emitVars,
                    written, stats, calls >>

EnterFastPath ==
    /\ pc = "start"
    /\ opt.supplier /\ ~opt.extension /\ ~opt.index
    /\ supplier' = "live"
    /\ pc' = "fast"
    /\ UNCHANGED << opt, argv, argn, threads, barrier, hist, stream, nDelivered, memVars, batchVars, bufVars, emitVars,
                    written, stats, calls >>

\* One iteration of the loop of the index-absent path.
FastPathPair ==
    /\ pc = "fast"
    /\ nDelivered < Len(stream)
    /\ LET kind == stream[nDelivered + 1] IN
         LET pair == [id |-> nDelivered + 1, r0 |-> kind.r0, r1 |-> kind.r1,
                      idsMatch |-> kind.idsMatch]
             pass0 == passFilter(opt.filter, NotFound, IsUseful(pair.r0), FALSE)
             pass1 == passFilter(opt.filter, NotFound, IsUseful(pair.r1), FALSE)
             pass == PassPair(opt.filterBoth, pass0, pass1)
         IN  /\ nDelivered' = nDelivered + 1
             /\ IF ~opt.ignoreMismatchedIDs /\ ~pair.idsMatch
                THEN /\ pc' = "exit"
                     /\ UNCHANGED << stats, written >>
                ELSE /\ pc' = "fast"
                     /\ stats' = [stats EXCEPT
                            !.totalReads = @ + 2,
                            !.notFound = IF pass THEN @ + 1 ELSE @,
                            !.uselessReads = IF pass THEN @ ELSE @ + 1]
                     /\ written' = IF pass /\ opt.writer
                                   THEN Append(written,
                                          WriteCall(pair, << UnalignedRecord >>,
                                                    << << >>, << >> >>, TRUE, FALSE))
                                   ELSE written
    /\ UNCHANGED << opt, argv, argn, threads, barrier, hist, stream, supplier, memVars, batchVars, bufVars, emitVars, calls >>

FastPathEnd ==
    /\ pc = "fast"
    /\ nDelivered = Len(stream)
    /\ supplier' = "deleted"
    /\ pc' = "done"
    /\ UNCHANGED << opt, argv, argn, threads, barrier, hist, stream, nDelivered, memVars, batchVars, bufVars, emitVars,
                    written, stats, calls >>

(***************************************************************************)
(* Allocation (the indexed path).                                          *)
(***************************************************************************)
\* _maxPairedSecondaryHits_ref and _maxSingleSecondaryHits_ref
InitialSecondaryHits(maxAdditionalEditDistance) ==
    IF maxAdditionalEditDistance < 0 THEN 0 ELSE 32

\* The sizes of the types: a pointer (what sizeof(*results) and
\* sizeof(*singleSecondaryResults) are, results being an array of pointers),
\* and the result records, sized by the per-read fields they hold.
SizeofPointer == 8
SizeofPairedAlignmentResult == 48
SizeofSingleAlignmentResult == 24

\* BigAlloc((1 + _maxPairedSecondaryHits_ref) * sizeof(*results))
InitialResultsBytes(hits) == (1 + hits) * SizeofPointer

\* BigAlloc(_maxSingleSecondaryHits_ref * sizeof(*singleSecondaryResults))
InitialSingleBytes(hits) == hits * SizeofPointer

\* BigAlloc((maxPairedSecondaryHits[pairIdx] + 1) * sizeof(PairedAlignmentResult))
GrownResultsBytes(hits) == (hits + 1) * SizeofPairedAlignmentResult

\* BigAlloc(maxSingleSecondaryHits[pairIdx] * sizeof(SingleAlignmentResult))
GrownSingleBytes(hits) == hits * SizeofSingleAlignmentResult

\* n records do not fit the bytes asked for the buffer.
PairedOverrun(buffer, n) == n * SizeofPairedAlignmentResult > buffer.bytes
SingleOverrun(buffer, n) == n * SizeofSingleAlignmentResult > buffer.bytes

\* What a stage call that stores records can end in: the records are
\* stored; or, when they do not fit the bytes asked for and the block is no
\* larger than asked, the heap is overrun.
StoreOutcomes(overrun) == IF overrun THEN {"stored", "overrun"} ELSE {"stored"}

\* The blocks of the per-pair result buffers made by the allocation loop.
ResultsBlock(p) == 2 * p + 1
SingleBlock(p) == 2 * p + 2

Allocate ==
    /\ pc = "start"
    /\ opt.supplier /\ ~opt.extension /\ opt.index
    /\ supplier' = "live"
    /\ arena' = "live"
    /\ live' = { ResultsBlock(p) : p \in Slots } \cup { SingleBlock(p) : p \in Slots }
    /\ results' =
         [p \in Slots |->
            [block |-> ResultsBlock(p),
             bytes |-> InitialResultsBytes(
                         InitialSecondaryHits(opt.maxSecondaryAlignmentAdditionalEditDistance)),
             data |-> << >>]]
    /\ singleSecondaryResults' =
         [p \in Slots |->
            [block |-> SingleBlock(p),
             bytes |-> InitialSingleBytes(
                         InitialSecondaryHits(opt.maxSecondaryAlignmentAdditionalEditDistance)),
             data |-> << >>]]
    /\ maxPairedSecondaryHits' =
         [p \in Slots |-> InitialSecondaryHits(opt.maxSecondaryAlignmentAdditionalEditDistance)]
    /\ maxSingleSecondaryHits' =
         [p \in Slots |-> InitialSecondaryHits(opt.maxSecondaryAlignmentAdditionalEditDistance)]
    /\ pairNotFinished' = [p \in Slots |-> TRUE]
    /\ calls' = [calls EXCEPT
           !.canary = "checked",                        \* allocator->checkCanaries()
           !.cluster = [minPairsPerCluster |-> opt.minPairsPerCluster,
                        maxClusterSpan |-> opt.maxClusterSpan]]
    /\ pc' = "buffer"
    /\ UNCHANGED << opt, argv, argn, threads, barrier, hist, stream, nDelivered, badFree, batchVars, nSecondaryResults, nSecBase,
                    nSingleSecondaryResults, tracker, emitVars, written, stats >>

(***************************************************************************)
(* Buffering the reads of the barcode.                                     *)
(***************************************************************************)
\* Variant of the slot checked: the slot the pair was delivered into.
\* EmissionOrder does not hold of it.
CurrentSlot(total) == total

\* The slot whose reads the ID check and the usefulness test look at: the
\* code names reads[0] and reads[1], whatever totalPairsForBarcode is.
CheckedSlot(total) == 0

\* One iteration of the buffering loop: the supplier delivers a pair into slot
\* totalPairsForBarcode; the pair is checked, and either emitted as unmapped
\* or kept.
GetNextReadPair ==
    /\ pc = "buffer"
    /\ nDelivered < Len(stream)
    /\ LET kind == stream[nDelivered + 1] IN
         LET pair == [id |-> nDelivered + 1, r0 |-> kind.r0, r1 |-> kind.r1,
                      idsMatch |-> kind.idsMatch]
             total == totalPairsForBarcode
         IN
         /\ nDelivered' = nDelivered + 1
         /\ IF total >= MaxBarcodeSize
            THEN \* &reads[2 * maxBarcodeSize] is past the end of the array
                 /\ pc' = "ub"
                 /\ UNCHANGED << batchVars, written, stats >>
            ELSE
              LET newReads == [reads EXCEPT ![total] = pair]
                  checked == newReads[CheckedSlot(total)]
                  u0 == IsUseful(checked.r0)
                  u1 == IsUseful(checked.r1)
                  pass0 == passFilter(opt.filter, NotFound, TRUE, FALSE)
                  pass1 == passFilter(opt.filter, NotFound, TRUE, FALSE)
                  pass == PassPair(opt.filterBoth, pass0, pass1)
              IN
              /\ reads' = newReads
              /\ IF ~opt.ignoreMismatchedIDs /\ ~checked.idsMatch
                 THEN \* Read::checkIdMatch ends the process
                      /\ pc' = "exit"
                      /\ UNCHANGED << useful0, useful1, totalPairsForBarcode,
                                      written, stats >>
                 ELSE
                   /\ pc' = "buffer"
                   /\ useful0' = [useful0 EXCEPT ![total] = u0]
                   /\ useful1' = [useful1 EXCEPT ![total] = u1]
                   /\ IF ~u0 /\ ~u1
                      THEN /\ totalPairsForBarcode' = total
                           /\ written' =
                                IF pass /\ opt.writer
                                THEN Append(written,
                                       WriteCall(newReads[0], << UnalignedRecord >>,
                                                 << << >>, << >> >>, TRUE, FALSE))
                                ELSE written
                           /\ stats' = [stats EXCEPT
                                  !.totalReads = @ + 2,
                                  !.uselessReads = IF pass THEN @ + 2 ELSE @,
                                  !.filtered = IF pass THEN @ ELSE @ + 2]
                      ELSE /\ totalPairsForBarcode' = total + 1
                           /\ written' = written
                           /\ stats' = [stats EXCEPT !.totalReads = @ + 2]
    /\ UNCHANGED << opt, argv, argn, threads, barrier, hist, stream, supplier, memVars, bufVars, emitVars, calls >>

\* The supplier has no more pairs: the loop ends.
EndOfReads ==
    /\ pc = "buffer"
    /\ nDelivered = Len(stream)
    /\ pc' = "stage1"
    /\ UNCHANGED << opt, argv, argn, threads, barrier, hist, stream, supplier, nDelivered, memVars, batchVars, bufVars, emitVars,
                    written, stats, calls >>

(***************************************************************************)
(* The cluster aligner (TenXClusterAligner and its TenXSingleAligners).    *)
(* What the aligners find for a pair is a function of the pair's reads and *)
(* the index; it is drawn when stage 1 seeds the pair and kept in          *)
(* tracker[p].                                                             *)
(***************************************************************************)
\* The candidate list of a pair placed as a pair, from the statuses of its
\* candidates: the primary first, then the secondaries; both mates of a
\* candidate carry the status of the candidate.
Candidates(statuses) ==
    [k \in 1 .. Len(statuses) |-> PairedRecord(k - 1, statuses[k], statuses[k])]

\* The list with the scores given: stage 2 stores the secondaries in
\* non-decreasing score order.
Ranked(list, scores) == [k \in DOMAIN list |-> [list[k] EXCEPT !.score = scores[k]]]

\* A primary and n secondaries of equal score.
EqualCandidates(n) ==
    Candidates([k \in 1 .. (n + 1) |-> IF k = 1 THEN SingleHit ELSE MultipleHits])

\* The candidate lists explored.  With a negative
\* maxSecondaryAlignmentAdditionalEditDistance no candidate is within the
\* distance of the best one, so there is no secondary.
ShortLists(o) ==
    IF o.maxSecondaryAlignmentAdditionalEditDistance < 0
    THEN { Candidates(<< SingleHit >>), Candidates(<< MultipleHits >>) }
    ELSE { Candidates(<< SingleHit >>),
           Candidates(<< MultipleHits, MultipleHits >>),
           Candidates(<< MultipleHits, SingleHit, MultipleHits >>),
           Candidates(<< SingleHit, MultipleHits, SingleHit >>),
           Ranked(Candidates(<< MultipleHits, SingleHit, SingleHit >>), << 0, 0, 1 >>),
           EqualCandidates(5) }

\* Lists longer than the initial capacity, explored under the default
\* options; the longest only for a batch of one pair.
LongLists(o, batchSize) ==
    IF o # DefaultOptions THEN {}
    ELSE { EqualCandidates(33), EqualCandidates(64) }
         \cup (IF batchSize = 1 THEN { EqualCandidates(199) } ELSE {})

\* The single-end results of a pair that is not placed as a pair: the status
\* of each mate (NotFound for a mate that is not useful), and the secondary
\* single results of each mate.
SingleStatuses(pair) ==
    { st \in { << SingleHit, NotFound >>, << NotFound, NotFound >>,
               << MultipleHits, SingleHit >> } :
        /\ ~IsUseful(pair.r0) => st[1] = NotFound
        /\ ~IsUseful(pair.r1) => st[2] = NotFound }

SingleRecord(mate, k) ==
    [mate |-> mate, cand |-> k,
     status |-> IF k % 2 = 1 THEN SingleHit ELSE MultipleHits]

SingleList(mate, n) == [k \in 1 .. n |-> SingleRecord(mate, k)]

Unplaced(o, st, n0, n1) ==
    [placed |-> FALSE, paired |-> << UnalignedRecord >>, single |-> st,
     singles |->
       IF o.maxSecondaryAlignmentAdditionalEditDistance < 0 THEN << << >>, << >> >>
       ELSE << SingleList(0, IF st[1] = NotFound THEN 0 ELSE n0),
               SingleList(1, IF st[2] = NotFound THEN 0 ELSE n1) >>]

Placed(list) ==
    [placed |-> TRUE, paired |-> list, single |-> << NotFound, NotFound >>,
     singles |-> << << >>, << >> >>]

\* What the aligners can find for a pair.
Trackers(o, pair, batchSize) ==
    IF ~pair.idsMatch THEN { Placed(Candidates(<< SingleHit >>)) }
    ELSE
      { Placed(l) : l \in IF IsUseful(pair.r0) /\ IsUseful(pair.r1)
                          THEN ShortLists(o) \cup LongLists(o, batchSize) ELSE {} }
      \cup { Unplaced(o, st, 2, 2) : st \in SingleStatuses(pair) }
      \cup { Unplaced(o, st, 20, 20) :
               st \in IF o = DefaultOptions
                      THEN SingleStatuses(pair) \cap { << MultipleHits, SingleHit >> }
                      ELSE {} }

\* The outcomes any number of pairs of a batch may have; at most one pair of
\* a batch has another.
PlainTrackers(o) ==
    IF o.maxSecondaryAlignmentAdditionalEditDistance < 0
    THEN { Placed(Candidates(<< SingleHit >>)), Placed(Candidates(<< MultipleHits >>)) }
    ELSE { Placed(Candidates(<< SingleHit >>)),
           Placed(Candidates(<< MultipleHits, MultipleHits >>)) }

\* Seeding found no candidate for either mate of a pair with two useful reads.
NoCandidates(pair, t) ==
    /\ ~t.placed
    /\ t.single = << NotFound, NotFound >>
    /\ IsUseful(pair.r0) /\ IsUseful(pair.r1)

Batch == 0 .. (totalPairsForBarcode - 1)

\* What seeding can find for the first n pairs of the batch.
RECURSIVE Seeded(_)
Seeded(n) ==
    IF n = 0 THEN { [p \in Slots |-> NoTracker] }
    ELSE { g \in { [f EXCEPT ![n - 1] = t] :
                     f \in Seeded(n - 1),
                     t \in Trackers(opt, reads[n - 1], totalPairsForBarcode) } :
             Cardinality({ p \in 0 .. (n - 1) : g[p] \notin PlainTrackers(opt) }) <= 1 }

\* if (barcodeFinished) return;
ReturnsAfterFirstStage(barcodeFinished) == barcodeFinished

\* Stage 1: aligner->align_first_stage(...), and the test of what it returns.
AlignFirstStage ==
    /\ pc = "stage1"
    /\ \E barcodeFinished \in BOOLEAN :
       \E t \in Seeded(totalPairsForBarcode) :
         /\ tracker' = t
         /\ pairNotFinished' =
              [p \in Slots |->
                 IF p \in Batch /\ NoCandidates(reads[p], t[p]) THEN FALSE
                 ELSE pairNotFinished[p]]
         /\ results' =
              [p \in Slots |->
                 IF p \in Batch /\ NoCandidates(reads[p], t[p])
                 THEN [results[p] EXCEPT !.data = << UnalignedRecord >>]
                 ELSE results[p]]
         /\ nSecondaryResults' =
              [p \in Slots |->
                 IF p \in Batch /\ NoCandidates(reads[p], t[p]) THEN 0
                 ELSE nSecondaryResults[p]]
         /\ nSingleSecondaryResults' =
              [p \in Slots |->
                 IF p \in Batch /\ NoCandidates(reads[p], t[p]) THEN << 0, 0 >>
                 ELSE nSingleSecondaryResults[p]]
         /\ calls' = [calls EXCEPT !.first = IF @ < 2 THEN @ + 1 ELSE @, !.canary = "stale"]
         /\ \E outcome \in StoreOutcomes(\E p \in Batch :
                                            /\ NoCandidates(reads[p], t[p])
                                            /\ PairedOverrun(results[p], 1)) :
              pc' = IF outcome = "overrun" THEN "overrun"
                    ELSE IF ReturnsAfterFirstStage(barcodeFinished) THEN "done"
                    ELSE "stage2"
    /\ UNCHANGED << opt, argv, argn, threads, barrier, hist, stream, supplier, nDelivered, memVars, batchVars,
                    maxPairedSecondaryHits, maxSingleSecondaryHits,
                    singleSecondaryResults, nSecBase, emitVars, written, stats >>

\* Variants of the capacity update: one that does not grow, one that grows
\* faster.  RetryLoopsTerminate does not hold of the first, CapacityDoubling
\* does not hold of the second.
SameCapacity(capacity) == capacity
QuadrupledCapacity(capacity) == capacity * 4

\* maxPairedSecondaryHits[pairIdx] *= 2;  maxSingleSecondaryHits[pairIdx] *= 2;
GrownCapacity(capacity) == capacity * 2

\* Variant of the loop exit: a loop that never retries.  StageOrder does not
\* hold of it.
AlwaysBreaks(barcodeFinished) == TRUE

\* if (barcodeFinished) break;
BreaksLoop(barcodeFinished) == barcodeFinished

\* Variant of the test on the flag: every pair of the batch is grown.
\* RetryFrame does not hold of it.
GrowsEveryPair(flag) == TRUE

\* if (pairNotFinished[pairIdx])
GrowsBuffer(flag) == flag

\* Stage 2: aligner->align_second_stage(...).  A pair whose flag is set is
\* scored; if its secondaries fit its capacity they are stored and the flag
\* is cleared, otherwise only the count needed is reported.
AlignSecondStage ==
    /\ pc = "stage2"
    /\ LET need(p) == Len(tracker[p].paired) - 1
           scored(p) == p \in Batch /\ pairNotFinished[p]
           fits(p) == need(p) <= maxPairedSecondaryHits[p]
           flags == [p \in Slots |-> IF scored(p) THEN ~fits(p) ELSE pairNotFinished[p]]
           barcodeFinished == \A p \in Batch : ~flags[p]
       IN  /\ pairNotFinished' = flags
           /\ results' =
                [p \in Slots |->
                   IF scored(p) /\ fits(p)
                   THEN [results[p] EXCEPT !.data = tracker[p].paired]
                   ELSE results[p]]
           /\ nSecondaryResults' =
                [p \in Slots |-> IF scored(p) THEN need(p) ELSE nSecondaryResults[p]]
           /\ nSingleSecondaryResults' =
                [p \in Slots |->
                   IF scored(p) /\ fits(p) THEN << 0, 0 >> ELSE nSingleSecondaryResults[p]]
           /\ calls' = [calls EXCEPT !.second = TRUE, !.secondDone = barcodeFinished,
                                     !.canary = "stale"]
           /\ \E outcome \in StoreOutcomes(\E p \in Slots :
                                              /\ scored(p) /\ fits(p)
                                              /\ PairedOverrun(results[p],
                                                               Len(tracker[p].paired))) :
                pc' = IF outcome = "overrun" THEN "overrun"
                      ELSE IF BreaksLoop(barcodeFinished) THEN "stage3"
                      ELSE "grow2"
    /\ UNCHANGED << opt, argv, argn, threads, barrier, hist, stream, supplier, nDelivered, memVars, batchVars,
                    maxPairedSecondaryHits, maxSingleSecondaryHits,
                    singleSecondaryResults, nSecBase, tracker, emitVars,
                    written, stats >>

\* The loop after a stage-2 call that did not finish: the buffer of every
\* flagged pair is released and allocated again at twice the capacity.
GrowPairedBuffers ==
    /\ pc = "grow2"
    /\ maxPairedSecondaryHits' =
         [p \in Slots |->
            IF p \in Batch /\ GrowsBuffer(pairNotFinished[p])
            THEN GrownCapacity(maxPairedSecondaryHits[p])
            ELSE maxPairedSecondaryHits[p]]
    /\ results' =
         [p \in Slots |->
            IF p \in Batch /\ GrowsBuffer(pairNotFinished[p])
            THEN [results[p] EXCEPT
                    !.bytes = GrownResultsBytes(GrownCapacity(maxPairedSecondaryHits[p])),
                    !.data = << >>]
            ELSE results[p]]
    /\ badFree' = (badFree \/ \E p \in Batch :
                                GrowsBuffer(pairNotFinished[p]) /\ results[p].block \notin live)
    /\ pc' = "stage2"
    /\ UNCHANGED << opt, argv, argn, threads, barrier, hist, stream, supplier, nDelivered, arena, live, batchVars, pairNotFinished,
                    maxSingleSecondaryHits, singleSecondaryResults, nSecondaryResults,
                    nSecBase, nSingleSecondaryResults, tracker, emitVars,
                    written, stats, calls >>

\* Stage 3: aligner->align_third_stage(...).  A pair that was not placed as a
\* pair gets the single-end results of its mates; the secondary single
\* results of both mates share the pair's buffer, those of mate 1 after
\* those of mate 0.
AlignThirdStage ==
    /\ pc = "stage3"
    /\ LET n0(p) == Len(tracker[p].singles[1])
           n1(p) == Len(tracker[p].singles[2])
           scored(p) == /\ p \in Batch
                        /\ ~tracker[p].placed
                        /\ ~NoCandidates(reads[p], tracker[p])
                        /\ (~calls.third \/ pairNotFinished[p])
           fits(p) == n0(p) + n1(p) <= maxSingleSecondaryHits[p]
           flags == [p \in Slots |-> IF scored(p) THEN ~fits(p) ELSE pairNotFinished[p]]
           barcodeFinished == \A p \in Batch : ~flags[p]
       IN  /\ pairNotFinished' = flags
           /\ results' =
                [p \in Slots |->
                   IF scored(p) /\ fits(p)
                   THEN [results[p] EXCEPT !.data =
                           << PairedRecord(0, tracker[p].single[1], tracker[p].single[2]) >>]
                   ELSE results[p]]
           /\ singleSecondaryResults' =
                [p \in Slots |->
                   IF scored(p) /\ fits(p)
                   THEN [singleSecondaryResults[p] EXCEPT !.data =
                           tracker[p].singles[1] \o tracker[p].singles[2]]
                   ELSE singleSecondaryResults[p]]
           /\ nSingleSecondaryResults' =
                [p \in Slots |->
                   IF scored(p) THEN << n0(p), n1(p) >> ELSE nSingleSecondaryResults[p]]
           /\ calls' = [calls EXCEPT !.third = TRUE, !.thirdDone = barcodeFinished,
                                     !.canary = "stale"]
           /\ \E outcome \in StoreOutcomes(\E p \in Slots :
                                              /\ scored(p) /\ fits(p)
                                              /\ \/ PairedOverrun(results[p], 1)
                                                 \/ SingleOverrun(singleSecondaryResults[p],
                                                                  n0(p) + n1(p))) :
                pc' = IF outcome = "overrun" THEN "overrun"
                      ELSE IF BreaksLoop(barcodeFinished) THEN "emit"
                      ELSE "grow3"
           /\ pairIdx' = 0
    /\ UNCHANGED << opt, argv, argn, threads, barrier, hist, stream, supplier, nDelivered, memVars, batchVars,
                    maxPairedSecondaryHits, maxSingleSecondaryHits,
                    nSecondaryResults, nSecBase, tracker, i, firstIsPrimary,
                    written, stats >>

\* The loop after a stage-3 call that did not finish.
GrowSingleBuffers ==
    /\ pc = "grow3"
    /\ maxSingleSecondaryHits' =
         [p \in Slots |->
            IF p \in Batch /\ GrowsBuffer(pairNotFinished[p])
            THEN GrownCapacity(maxSingleSecondaryHits[p])
            ELSE maxSingleSecondaryHits[p]]
    /\ singleSecondaryResults' =
         [p \in Slots |->
            IF p \in Batch /\ GrowsBuffer(pairNotFinished[p])
            THEN [singleSecondaryResults[p] EXCEPT
                    !.bytes = GrownSingleBytes(GrownCapacity(maxSingleSecondaryHits[p])),
                    !.data = << >>]
            ELSE singleSecondaryResults[p]]
    /\ badFree' = (badFree \/ \E p \in Batch :
                                GrowsBuffer(pairNotFinished[p])
                                /\ singleSecondaryResults[p].block \notin live)
    /\ pc' = "stage3"
    /\ UNCHANGED << opt, argv, argn, threads, barrier, hist, stream, supplier, nDelivered, arena, live, batchVars, pairNotFinished,
                    maxPairedSecondaryHits, results, nSecondaryResults,
                    nSecBase, nSingleSecondaryResults, tracker, emitVars,
                    written, stats, calls >>

(***************************************************************************)
(* Emission.                                                               *)
(***************************************************************************)
\* What a read outside the initialised part of a block, or outside the
\* array of counters, can yield.
GarbageCounts == {-1, 1}
GarbageRecords ==
    { [cand |-> -1, score |-> 0, status |-> st, location |-> << "?", "?" >>] :
        st \in { << SingleHit, NotFound >>, << MultipleHits, MultipleHits >> } }
WildRecord ==
    [cand |-> -1, score |-> 0, status |-> << "?", "?" >>, location |-> << "?", "?" >>]

\* The values nSecondaryResults[p] can yield, the pointer nSecondaryResults
\* pointing nSecBase entries from the start of the array.
CounterValues(p) ==
    IF nSecBase + p >= 0 THEN { nSecondaryResults[nSecBase + p] } ELSE GarbageCounts

\* The values buffer[k] can yield.
RecordValues(buffer, k) ==
    IF 0 <= k /\ k < Len(buffer.data) THEN { buffer.data[k + 1] } ELSE GarbageRecords

\* nSecondaryResults--;
MovedCounters(base) == IF base - 1 < -MaxBarcodeSize THEN base ELSE base - 1

\* if (forceSpacing && isOneLocation(status[0]) != isOneLocation(status[1]))
ForcedSpacing(forceSpacing, rec) ==
    IF forceSpacing /\ isOneLocation(rec.status[1]) # isOneLocation(rec.status[2])
    THEN [rec EXCEPT !.status = << NotFound, NotFound >>,
                     !.location = << InvalidGenomeLocation, InvalidGenomeLocation >>]
    ELSE rec

\* The head of the loop over the pairs of the batch, up to the filter loop.
BeginPair ==
    /\ pc = "emit"
    /\ IF pairIdx < totalPairsForBarcode
       THEN /\ results' =
                 [results EXCEPT ![pairIdx].data =
                    IF Len(@) > 0
                    THEN << ForcedSpacing(opt.forceSpacing, Head(@)) >> \o Tail(@)
                    ELSE @]
            /\ firstIsPrimary' = TRUE
            /\ i' = 0
            /\ pc' = "filter"
       ELSE /\ pc' = "cleanup"
            /\ UNCHANGED << results, firstIsPrimary, i >>
    /\ UNCHANGED << opt, argv, argn, threads, barrier, hist, stream, supplier, nDelivered, memVars, batchVars, pairNotFinished,
                    maxPairedSecondaryHits, maxSingleSecondaryHits,
                    singleSecondaryResults, nSecondaryResults, nSecBase,
                    nSingleSecondaryResults, tracker, pairIdx, written, stats, calls >>

\* One test of the filter loop's condition and, if it holds, one pass
\* through its body.
FilterStep ==
    /\ pc = "filter"
    /\ \E count \in CounterValues(pairIdx) :
         IF i <= count
         THEN \E rec \in RecordValues(results[pairIdx], i) :
              \E last \in RecordValues(results[pairIdx], count) :
                LET secondary == i # 0 \/ ~firstIsPrimary
                    pass0 == passFilter(opt.filter, rec.status[1], ~useful0[pairIdx], secondary)
                    pass1 == passFilter(opt.filter, rec.status[2], ~useful1[pairIdx], secondary)
                    pass == PassPair(opt.filterBoth, pass0, pass1)
                IN  IF pass
                    THEN /\ i' = i + 1
                         /\ pc' = "filter"
                         /\ UNCHANGED << results, nSecBase, firstIsPrimary >>
                    ELSE /\ results' =
                              [results EXCEPT ![pairIdx].data =
                                 IF i < Len(@) THEN [@ EXCEPT ![i + 1] = last] ELSE @]
                         /\ nSecBase' = MovedCounters(nSecBase)
                         /\ firstIsPrimary' = IF i = 0 THEN FALSE ELSE firstIsPrimary
                         /\ i' = i
                         /\ pc' = "filter"
         ELSE /\ pc' = "write"
              /\ UNCHANGED << results, nSecBase, firstIsPrimary, i >>
    /\ UNCHANGED << opt, argv, argn, threads, barrier, hist, stream, supplier, nDelivered, memVars, batchVars, pairNotFinished,
                    maxPairedSecondaryHits, maxSingleSecondaryHits,
                    singleSecondaryResults, nSecondaryResults,
                    nSingleSecondaryResults, tracker, pairIdx, written, stats, calls >>

\* Variant of the loop over the single results: nothing is removed.
\* SingleFilterExact does not hold of it.
KeepSingles(policy, list, n, k) == [list |-> list, n |-> n]

\* The filter loop over the secondary single results of one mate: an entry
\* that fails is overwritten by the last one and the count is decremented.
RECURSIVE FilterSingles(_, _, _, _)
FilterSingles(policy, list, n, k) ==
    IF k > n THEN [list |-> list, n |-> n]
    ELSE IF passFilter(policy, list[k].status, FALSE, TRUE)
         THEN FilterSingles(policy, list, n, k + 1)
         ELSE FilterSingles(policy, [list EXCEPT ![k] = list[n]], n - 1, k)

\* updateStats(stats, read0, read1, result, useful0, useful1), the counters
\* of one mate.
MateStats(st, useful, status) ==
    IF useful
    THEN IF isOneLocation(status) THEN [st EXCEPT !.singleHits = @ + 1]
         ELSE IF status = MultipleHits THEN [st EXCEPT !.multiHits = @ + 1]
         ELSE [st EXCEPT !.notFound = @ + 1]
    ELSE [st EXCEPT !.uselessReads = @ + 1]

updateStats(st, result, u0, u1) ==
    MateStats(MateStats(st, u0, result.status[1]), u1, result.status[2])

SubSeqOrEmpty(seq, from, to) ==
    IF from > to THEN << >> ELSE SubSeq(seq, from, to)

\* The rest of the loop body for a pair: the single results are filtered,
\* the pair is handed to the writer and the statistics are updated.
WritePair ==
    /\ pc = "write"
    /\ \E count \in CounterValues(pairIdx) :
         LET buffer == singleSecondaryResults[pairIdx]
             n0 == nSingleSecondaryResults[pairIdx][1]
             n1 == nSingleSecondaryResults[pairIdx][2]
             f0 == FilterSingles(opt.filter, SubSeqOrEmpty(buffer.data, 1, n0), n0, 1)
             f1 == FilterSingles(opt.filter, SubSeqOrEmpty(buffer.data, n0 + 1, n0 + n1), n1, 1)
             recs == [k \in 1 .. (count + 1) |->
                        IF k <= Len(results[pairIdx].data)
                        THEN results[pairIdx].data[k] ELSE WildRecord]
             first == IF Len(results[pairIdx].data) > 0
                      THEN results[pairIdx].data[1] ELSE WildRecord
         IN  /\ singleSecondaryResults' =
                  [singleSecondaryResults EXCEPT ![pairIdx].data =
                     f0.list \o f1.list \o SubSeqOrEmpty(@, n0 + n1 + 1, Len(@))]
             /\ nSingleSecondaryResults' =
                  [nSingleSecondaryResults EXCEPT ![pairIdx] = << f0.n, f1.n >>]
             /\ written' =
                  IF opt.writer
                  THEN Append(written,
                         WriteCall(reads[pairIdx], recs,
                                   << SubSeqOrEmpty(f0.list, 1, f0.n),
                                      SubSeqOrEmpty(f1.list, 1, f1.n) >>,
                                   firstIsPrimary, TRUE))
                  ELSE written
             /\ stats' =
                  IF firstIsPrimary
                  THEN updateStats(stats, first, useful0[pairIdx], useful1[pairIdx])
                  ELSE [stats EXCEPT !.filtered = @ + 2]
    /\ pairIdx' = pairIdx + 1
    /\ pc' = "emit"
    /\ UNCHANGED << opt, argv, argn, threads, barrier, hist, stream, supplier, nDelivered, memVars, batchVars, pairNotFinished,
                    maxPairedSecondaryHits, maxSingleSecondaryHits, results,
                    nSecondaryResults, nSecBase, tracker, i, firstIsPrimary, calls >>

(***************************************************************************)
(* Cleanup.                                                                *)
(***************************************************************************)
Cleanup ==
    /\ pc = "cleanup"
    /\ live' = live \ ({ results[p].block : p \in Slots }
                         \cup { singleSecondaryResults[p].block : p \in Slots })
    /\ badFree' = (\/ badFree
                   \/ \E p \in Slots : results[p].block \notin live
                   \/ \E p \in Slots : singleSecondaryResults[p].block \notin live
                   \/ nSecBase # 0)
    /\ results' = [p \in Slots |-> NoBuffer]
    /\ singleSecondaryResults' = [p \in Slots |-> NoBuffer]
    /\ supplier' = "deleted"
    /\ arena' = "released"
    /\ calls' = [calls EXCEPT !.canary = "checked"]    \* allocator->checkCanaries()
    /\ pc' = "done"
    /\ UNCHANGED << opt, argv, argn, threads, barrier, hist, stream, nDelivered, batchVars, pairNotFinished,
                    maxPairedSecondaryHits, maxSingleSecondaryHits,
                    nSecondaryResults, nSecBase, nSingleSecondaryResults, tracker,
                    emitVars, written, stats >>

Next ==
    \/ NoSupplier
    \/ ExtensionRuns
    \/ EnterFastPath
    \/ FastPathPair
    \/ FastPathEnd
    \/ Allocate
    \/ GetNextReadPair
    \/ EndOfReads
    \/ AlignFirstStage
    \/ AlignSecondStage
    \/ GrowPairedBuffers
    \/ AlignThirdStage
    \/ GrowSingleBuffers
    \/ BeginPair
    \/ FilterStep
    \/ WritePair
    \/ Cleanup

Spec == Init /\ [][Next]_vars

\* The configurations that differ in what the stages and their retry loops
\* do: the three entries that bypass them, the default, and secondary
\* alignments disabled.
LoopConfigs ==
    { [DefaultOptions EXCEPT !.supplier = FALSE],
      [DefaultOptions EXCEPT !.extension = TRUE],
      [DefaultOptions EXCEPT !.index = FALSE],
      DefaultOptions,
      [DefaultOptions EXCEPT !.maxSecondaryAlignmentAdditionalEditDistance = -1] }

LoopInit == Init /\ opt \in LoopConfigs

\* The worker is scheduled until it returns or the process ends.
FairSpec == LoopInit /\ [][Next]_vars /\ WF_vars(Next)

\* The collaborators and the filter a command line is parsed for; the
\* options of the 10x aligner are at their defaults.
ParseBases ==
    { [DefaultOptions EXCEPT !.supplier = FALSE],
      [DefaultOptions EXCEPT !.extension = TRUE],
      [DefaultOptions EXCEPT !.index = FALSE, !.filter = FilterTooShort],
      DefaultOptions,
      [DefaultOptions EXCEPT !.filter = FilterSingle] }

\* The command line is about to be parsed.
OptionsInit ==
    /\ opt \in ParseBases
    /\ argv \in ArgLists
    /\ argn = 1
    /\ threads = NoThreads
    /\ barrier = NoBarrier
    /\ hist = NoRecording
    /\ pc = "parse"
    /\ Constructed

OptionsNext ==
    \/ ParseOption
    \/ ParseDone
    \/ Next

\* A run from the command line on: the options are parsed, then the worker
\* runs with them.
OptionsSpec == OptionsInit /\ [][OptionsNext]_vars

\* The command lines made of the two cluster options and their arguments.
ClusterTokens == {"-minCluster", "-maxClusterSpan", "5", "9"}

ClusterArgLists == UNION { [1 .. n -> ClusterTokens] : n \in 0 .. MaxArgs }

ClusterInit ==
    /\ opt = DefaultOptions
    /\ argv \in ClusterArgLists
    /\ argn = 1
    /\ threads = NoThreads
    /\ barrier = NoBarrier
    /\ hist = NoRecording
    /\ pc = "parse"
    /\ Constructed
    /\ stream = << >>

ClusterNext ==
    \/ ParseOption
    \/ ParseDone
    \/ Allocate

\* The cluster options from the command line to the construction of the
\* cluster aligner.
ClusterSpec == ClusterInit /\ [][ClusterNext]_vars

(***************************************************************************)
(* The workers of a run and the timing barrier.  Every worker runs         *)
(* runIterationThread; here only its way to the buffering loop is          *)
(* followed: the early returns, the reservation of the arena, the barrier, *)
(* the reading.                                                            *)
(***************************************************************************)
NumWorkers == 3

Workers == 1 .. NumWorkers

\* What a worker finds at entry: no supplier, a supplier the extension takes
\* the work of, or a supplier it aligns itself.
Entries == {"none", "extension", "align"}

mainVars == << opt, argv, argn, pc, supplier, stream, nDelivered, arena, live, badFree,
               reads, useful0, useful1, totalPairsForBarcode, pairNotFinished,
               maxPairedSecondaryHits, maxSingleSecondaryHits, results,
               singleSecondaryResults, nSecondaryResults, nSecBase,
               nSingleSecondaryResults, tracker, pairIdx, i, firstIsPrimary,
               written, stats, calls >>

\* The workers are created; nThreadsAllocatingMemory counts all of them.
\* The barrier code is compiled under _MSC_VER only.
BarrierInit ==
    /\ opt = DefaultOptions
    /\ argv = << >>
    /\ argn = 0
    /\ pc = "start"
    /\ Constructed
    /\ stream = << >>
    /\ threads \in [Workers -> [entry : Entries, pc : {"start"}]]
    /\ barrier \in [msvc : BOOLEAN, useTimingBarrier : BOOLEAN, index : BOOLEAN,
                     nThreadsAllocatingMemory : {NumWorkers}, allowed : {FALSE}]
    /\ hist = NoRecording

\* if (NULL == supplier) return;
WorkerNoSupplier(w) ==
    /\ threads[w].pc = "start"
    /\ threads[w].entry = "none"
    /\ threads' = [threads EXCEPT ![w].pc = "returned"]
    /\ UNCHANGED << barrier, hist, mainVars >>

\* if (extension->runIterationThread(supplier, this)) { delete supplier; return; }
WorkerExtension(w) ==
    /\ threads[w].pc = "start"
    /\ threads[w].entry = "extension"
    /\ threads' = [threads EXCEPT ![w].pc = "returned"]
    /\ UNCHANGED << barrier, hist, mainVars >>

\* if (index == NULL) { ... return; }: the pairs are read and written
\* unaligned, no arena is reserved.
WorkerNoIndex(w) ==
    /\ threads[w].pc = "start"
    /\ threads[w].entry = "align"
    /\ ~barrier.index
    /\ threads' = [threads EXCEPT ![w].pc = "returned"]
    /\ UNCHANGED << barrier, hist, mainVars >>

\* The arena is reserved and the aligners and arrays are allocated.
WorkerReserve(w) ==
    /\ threads[w].pc = "start"
    /\ threads[w].entry = "align"
    /\ barrier.index
    /\ threads' = [threads EXCEPT ![w].pc = "reserved"]
    /\ UNCHANGED << barrier, hist, mainVars >>

\* The barrier: the worker that brings the count to zero lets the waiters
\* proceed, any other worker waits for the event.
WorkerArrive(w) ==
    /\ threads[w].pc = "reserved"
    /\ IF barrier.msvc /\ barrier.useTimingBarrier
       THEN LET n == barrier.nThreadsAllocatingMemory - 1
            IN  /\ barrier' = [barrier EXCEPT !.nThreadsAllocatingMemory = n,
                                               !.allowed = (n = 0) \/ @]
                /\ threads' = [threads EXCEPT ![w].pc = IF n = 0 THEN "reading"
                                                                 ELSE "waiting"]
       ELSE /\ threads' = [threads EXCEPT ![w].pc = "reading"]
            /\ UNCHANGED barrier
    /\ UNCHANGED << hist, mainVars >>

\* WaitForEvent(memoryAllocationCompleteBarrier) returns.
WorkerReleased(w) ==
    /\ threads[w].pc = "waiting"
    /\ barrier.allowed
    /\ threads' = [threads EXCEPT ![w].pc = "reading"]
    /\ UNCHANGED << barrier, hist, mainVars >>

\* The worker has read, aligned and written its batch.
WorkerDone(w) ==
    /\ threads[w].pc = "reading"
    /\ threads' = [threads EXCEPT ![w].pc = "returned"]
    /\ UNCHANGED << barrier, hist, mainVars >>

BarrierNext ==
    \E w \in Workers :
      \/ WorkerNoSupplier(w)
      \/ WorkerExtension(w)
      \/ WorkerNoIndex(w)
      \/ WorkerReserve(w)
      \/ WorkerArrive(w)
      \/ WorkerReleased(w)
      \/ WorkerDone(w)

BarrierSpec == BarrierInit /\ [][BarrierNext]_vars

(***************************************************************************)
(* TenXAlignerStats::recordAlignTogetherMapqAndTime.                       *)
(***************************************************************************)
maxMapq == 70
nTimeBuckets == 32
nHitsBuckets == 32
nLVCallsBuckets == 32

RECURSIVE Pow2(_)
Pow2(k) == IF k = 0 THEN 1 ELSE 2 * Pow2(k - 1)

\* x / 2 in C++: the quotient is truncated towards zero.
Half(x) ==
    IF x.s > 0 THEN Scaled(x.b, x.s - 1)
    ELSE Scaled(IF x.b >= 0 THEN x.b \div 2 ELSE (x.b + 1) \div 2, 0)

\* int divided = n, n an unsigned of 32 bits: a value of 2^31 or more becomes
\* the value minus 2^32.
ToInt(u) ==
    IF u.s >= 1 /\ u.s <= 31 /\ u.b >= Pow2(31 - u.s)
    THEN Scaled((u.b - Pow2(31 - u.s)) - Pow2(31 - u.s), u.s)
    ELSE u

\* for (bucket = from; bucket < limit; bucket++) { if (divided == 0) break; divided /= 2; }
RECURSIVE HalvingLoop(_, _, _)
HalvingLoop(divided, bucket, limit) ==
    IF bucket >= limit THEN bucket
    ELSE IF divided.b = 0 THEN bucket
    ELSE HalvingLoop(Half(divided), bucket + 1, limit)

\* The arguments explored: the ends of the range of mapq; times and counts at
\* zero, small, and around the powers of two where the width of the type
\* shows.
Mapqs == {0, 35, maxMapq}

Times ==
    { Scaled(0, 0), Scaled(1, 0), Scaled(5, 0), Scaled(1, 30), Scaled(1, 31),
      Scaled(3, 40), Scaled(2147483647, 32) }

Unsigneds ==
    { Scaled(0, 0), Scaled(1, 0), Scaled(3, 0), Scaled(1, 30), Scaled(2147483647, 0),
      Scaled(1, 31), Scaled(3, 30), Scaled(2147483647, 1) }

HistogramInit ==
    /\ opt = DefaultOptions
    /\ argv = << >>
    /\ argn = 0
    /\ threads = NoThreads
    /\ barrier = NoBarrier
    /\ pc = "start"
    /\ Constructed
    /\ stream = << >>
    /\ hist \in [state : {"called"}, mapq : Mapqs, timeInNanos : Times,
                  nSmallHits : Unsigneds, nLVCalls : Unsigneds,
                  timeBucket : {0}, nHitsBucket : {0}, nLVCallsBucket : {0}]

\* The body of recordAlignTogetherMapqAndTime: the three bucket indices are
\* computed and the cells of the six histograms are incremented.
RecordAlignTogether ==
    /\ hist.state = "called"
    /\ hist' = [hist EXCEPT
           !.state = "recorded",
           !.timeBucket = HalvingLoop(hist.timeInNanos, 0, nTimeBuckets - 1),
           !.nHitsBucket = HalvingLoop(ToInt(hist.nSmallHits), 0, nHitsBuckets),
           !.nLVCallsBucket = HalvingLoop(ToInt(hist.nLVCalls), 0, nLVCallsBuckets)]
    /\ UNCHANGED << threads, barrier, mainVars >>

HistogramSpec == HistogramInit /\ [][RecordAlignTogether]_vars

(***************************************************************************)
(* Properties.                                                             *)
(***************************************************************************)
\* The writePairs calls made for pairs of the batch.
BatchedCalls == { k \in DOMAIN written : written[k].batched }

\* The writePairs calls made for the pair in slot p of the batch.
CallsFor(p) == { k \in BatchedCalls : written[k].pair = reads[p].id }

\* The secondaries stage 2 finds for the pair in slot p.
Need(p) == Len(tracker[p].paired) - 1

\* C1: with an index present the stages run in the order Seeding ->
\* PairedScoring -> SingleFallback -> Emitted: align_first_stage is called
\* once, and before any align_second_stage call; align_third_stage is not
\* called before align_second_stage has returned "all done"; no pair of the
\* batch is written before align_third_stage has returned "all done".
StageOrder ==
    /\ calls.first <= 1
    /\ pc \in {"stage2", "grow2", "stage3", "grow3", "emit", "filter", "write", "cleanup"}
         => calls.first = 1
    /\ calls.second => calls.first = 1
    /\ calls.third => calls.secondDone
    /\ BatchedCalls # {} => calls.thirdDone

\* A run that went through a retry of stage 2 and wrote a pair of the batch.
StageOrderWitness ==
    /\ pc = "done"
    /\ BatchedCalls # {}
    /\ \E p \in Batch : maxPairedSecondaryHits[p] = 64

\* C2: an iteration of a retry loop doubles the capacity and re-allocates
\* the buffer of exactly the pairs whose pairNotFinished flag is set after
\* the stage call; the capacity, the buffer and its contents of every other
\* pair of the batch are unchanged, and a stage call leaves the buffer of a
\* pair whose flag is clear alone.
RetryFrame ==
    [][ /\ pc = "grow2" =>
             /\ \A p \in Batch :
                  IF pairNotFinished[p]
                  THEN /\ maxPairedSecondaryHits'[p] = 2 * maxPairedSecondaryHits[p]
                       /\ results'[p].data = << >>
                       /\ results'[p].block \in live'
                  ELSE /\ maxPairedSecondaryHits'[p] = maxPairedSecondaryHits[p]
                       /\ results'[p] = results[p]
             /\ maxSingleSecondaryHits' = maxSingleSecondaryHits
             /\ singleSecondaryResults' = singleSecondaryResults
        /\ pc = "grow3" =>
             /\ \A p \in Batch :
                  IF pairNotFinished[p]
                  THEN /\ maxSingleSecondaryHits'[p] = 2 * maxSingleSecondaryHits[p]
                       /\ singleSecondaryResults'[p].data = << >>
                       /\ singleSecondaryResults'[p].block \in live'
                  ELSE /\ maxSingleSecondaryHits'[p] = maxSingleSecondaryHits[p]
                       /\ singleSecondaryResults'[p] = singleSecondaryResults[p]
             /\ maxPairedSecondaryHits' = maxPairedSecondaryHits
             /\ results' = results
        /\ (pc = "stage2" /\ calls.second) =>
             \A p \in Batch : ~pairNotFinished[p] => results'[p] = results[p]
        /\ (pc = "stage3" /\ calls.third) =>
             \A p \in Batch :
               ~pairNotFinished[p] =>
                 /\ results'[p] = results[p]
                 /\ singleSecondaryResults'[p] = singleSecondaryResults[p] ]_vars

\* After a retry of stage 2 in a batch of two pairs: the pair that overflowed
\* has twice the capacity, the other has its capacity and its records.
RetryFrameWitness ==
    /\ pc = "stage2"
    /\ totalPairsForBarcode = 2
    /\ \E p, q \in Batch :
         /\ maxPairedSecondaryHits[p] = 64
         /\ maxPairedSecondaryHits[q] = 32
         /\ Len(results[q].data) = 2

\* C3: the retry loops terminate: whatever the batch, and for both initial
\* capacities the worker configures, a stage that is entered returns
\* "all done" after finitely many double-and-retry iterations.  (A run in
\* which a stage stores past the end of a buffer is left to
\* BuffersHoldCapacity.)
RetryLoopsTerminate ==
    /\ (pc = "stage2") ~> (pc \in {"stage3", "overrun"})
    /\ (pc = "stage3") ~> (pc \in {"emit", "overrun"})

\* Stage 3 has returned "all done" after a retry.
RetryLoopsTerminateWitness ==
    /\ pc = "emit"
    /\ \E p \in Batch : maxSingleSecondaryHits[p] = 64

\* The first of the values c, 2c, 4c, ... that is at least n.
RECURSIVE FirstFit(_, _)
FirstFit(c, n) == IF c >= n THEN c ELSE FirstFit(2 * c, n)

\* The values c, 2c, 4c, ... up to last.
RECURSIVE Doublings(_, _)
Doublings(c, last) == IF c >= last THEN {c} ELSE {c} \cup Doublings(2 * c, last)

\* C4: from the initial capacity 32 the capacity of a pair that needs n
\* secondaries takes the values 32, 64, 128, ... and stops at the first that
\* is at least n; the buffer then holds the primary and all n secondaries,
\* and so does the emission for the pair.
CapacityDoubling ==
    \A p \in Batch :
      (tracker[p].placed /\ opt.maxSecondaryAlignmentAdditionalEditDistance >= 0) =>
        /\ maxPairedSecondaryHits[p] \in Doublings(32, FirstFit(32, Need(p)))
        /\ calls.secondDone => maxPairedSecondaryHits[p] = FirstFit(32, Need(p))
        /\ pc = "stage3" => results[p].data = tracker[p].paired
        /\ (opt.filter = FilterNone /\ ~opt.forceSpacing) =>
             \A k \in CallsFor(p) : written[k].recs = tracker[p].paired

\* A pair with 199 secondaries was written from a buffer of capacity 256.
CapacityDoublingWitness ==
    \E p \in Batch :
      /\ Need(p) = 199
      /\ maxPairedSecondaryHits[p] = 256
      /\ \E k \in CallsFor(p) : Len(written[k].recs) = 200

\* C5: stage 1 completion never short-circuits: whatever align_first_stage
\* returns, a run that returns after stage 1 has run stage 2 and stage 3 and,
\* with a writer present, has handed every pair of the batch to the writer
\* in exactly one writePairs call.
NoShortCircuit ==
    (pc = "done" /\ calls.first = 1) =>
      /\ calls.secondDone
      /\ calls.thirdDone
      /\ opt.writer => \A p \in Batch : Cardinality(CallsFor(p)) = 1

\* C6: a run that returns after the arena and the buffers were constructed
\* has released the arena, freed every per-pair buffer exactly once and
\* deleted the supplier.
ReleasedOnReturn ==
    (pc = "done" /\ arena # "none") =>
      /\ arena = "released"
      /\ live = {}
      /\ ~badFree
      /\ supplier = "deleted"

\* The paired records of the pair in slot p after stage 3.
AfterStages(p) ==
    IF tracker[p].placed THEN tracker[p].paired
    ELSE IF NoCandidates(reads[p], tracker[p]) THEN << UnalignedRecord >>
    ELSE << PairedRecord(0, tracker[p].single[1], tracker[p].single[2]) >>

\* Exactly one mate of the record is a SingleHit.
OneSided(rec) == isOneLocation(rec.status[1]) # isOneLocation(rec.status[2])

Demoted(rec) ==
    [rec EXCEPT !.status = << NotFound, NotFound >>,
                !.location = << InvalidGenomeLocation, InvalidGenomeLocation >>]

\* The paired records of the pair in slot p as the filter loop finds them.
PreFilter(p) ==
    LET l == AfterStages(p)
    IN  IF opt.forceSpacing /\ OneSided(l[1]) THEN << Demoted(l[1]) >> \o Tail(l) ELSE l

\* The k-th pre-filter record of the pair in slot p passes the filter; the
\* first is the primary, the others are secondaries.
PassesFilter(p, k) ==
    PassPair(opt.filterBoth,
             passFilter(opt.filter, PreFilter(p)[k].status[1], ~useful0[p], k # 1),
             passFilter(opt.filter, PreFilter(p)[k].status[2], ~useful1[p], k # 1))

Survivors(p) == { PreFilter(p)[k] : k \in { j \in DOMAIN PreFilter(p) : PassesFilter(p, j) } }

\* C7: the paired records handed to the writer for a pair are exactly the
\* pair's pre-filter records that pass the filter, as many as pass; and a
\* removal touches the count of the pair only: the pointer nSecondaryResults
\* stays at the array of counters.
FilterExact ==
    /\ nSecBase = 0
    /\ \A p \in Batch : \A k \in CallsFor(p) :
         /\ Len(written[k].recs) = Cardinality(Survivors(p))
         /\ { written[k].recs[j] : j \in DOMAIN written[k].recs } = Survivors(p)

\* The pairs with both mates unuseful that the buffering loop counted as
\* filtered.
UnusefulFiltered ==
    IF PassPair(opt.filterBoth, passFilter(opt.filter, NotFound, TRUE, FALSE),
                passFilter(opt.filter, NotFound, TRUE, FALSE))
    THEN 0
    ELSE stats.totalReads \div 2 - totalPairsForBarcode

\* C8: the firstIsPrimary flag handed to the writer is false exactly when
\* the pair's original primary failed the filter; then the record at index 0
\* is a surviving former secondary and the pair adds 2 to stats->filtered
\* instead of going through updateStats; when the flag is true the record at
\* index 0 is the original primary.
PrimaryFlag ==
    /\ \A p \in Batch : \A k \in CallsFor(p) :
         /\ written[k].firstIsPrimary <=> PassesFilter(p, 1)
         /\ (written[k].firstIsPrimary /\ Len(written[k].recs) > 0) =>
              written[k].recs[1] = PreFilter(p)[1]
         /\ (~written[k].firstIsPrimary /\ Len(written[k].recs) > 0) =>
              \E j \in 2 .. Len(PreFilter(p)) :
                PassesFilter(p, j) /\ written[k].recs[1] = PreFilter(p)[j]
    /\ (opt.writer /\ calls.thirdDone /\ pc \in {"emit", "cleanup", "done"}) =>
         stats.filtered =
           2 * Cardinality({ k \in BatchedCalls : ~written[k].firstIsPrimary })
           + 2 * UnusefulFiltered

\* C9: with forceSpacing the first paired record handed to the writer never
\* has exactly one SingleHit mate, and a primary that had exactly one after
\* stage 3 is handed over with both statuses NotFound and both locations
\* invalid; without forceSpacing, or when the mates agree, the policy step
\* leaves the records as stage 3 left them.
ForceSpacingPolicy ==
    /\ opt.forceSpacing =>
         \A k \in BatchedCalls :
           Len(written[k].recs) > 0 => ~OneSided(written[k].recs[1])
    /\ \A p \in Batch : \A k \in CallsFor(p) :
         (/\ opt.forceSpacing
          /\ OneSided(AfterStages(p)[1])
          /\ written[k].firstIsPrimary
          /\ Len(written[k].recs) > 0) =>
           written[k].recs[1] = Demoted(AfterStages(p)[1])
    /\ (pc = "filter" /\ i = 0 /\ firstIsPrimary) =>
         IF opt.forceSpacing /\ OneSided(AfterStages(pairIdx)[1])
         THEN results[pairIdx].data = << Demoted(AfterStages(pairIdx)[1]) >>
         ELSE results[pairIdx].data = AfterStages(pairIdx)

\* C10: the writePairs calls of a barcode are in the order in which the
\* supplier delivered the pairs.
EmissionOrder ==
    \A j, k \in DOMAIN written : j < k => written[j].pair < written[k].pair

\* A pair with both mates unuseful was written from the buffering loop and
\* two pairs of the batch were written after it.
EmissionOrderWitness ==
    /\ Len(written) = 3
    /\ ~written[1].batched
    /\ written[2].batched
    /\ written[3].batched

\* Both mates of the pair are unuseful.
BothUnuseful(pair) == ~IsUseful(pair.r0) /\ ~IsUseful(pair.r1)

\* The pairs delivered so far, by their position in the stream.
Delivered == 1 .. nDelivered

\* C11: the usefulness flags recorded for a pair are computed from the
\* pair's own two reads: useful_i is true exactly when read i of the pair is
\* long enough and has few enough Ns, whatever the other pairs are.
UsefulnessOwn ==
    \A p \in Batch :
      /\ useful0[p] = IsUseful(reads[p].r0)
      /\ useful1[p] = IsUseful(reads[p].r1)

\* C12: a pair with both mates unuseful never occupies a slot of the batch;
\* it is handed to the writer from the buffering loop with its own reads and
\* a record with both statuses NotFound and both locations invalid, if the
\* filter lets it through, and it is accounted in uselessReads (in filtered
\* if the filter rejects it).
UnusefulSkipped ==
    /\ \A p \in Batch : ~BothUnuseful(reads[p])
    /\ \A k \in DOMAIN written :
         (opt.index /\ ~written[k].batched) =>
           /\ BothUnuseful(stream[written[k].pair])
           /\ written[k].recs = << UnalignedRecord >>
    /\ (opt.index /\ pc \in {"buffer", "stage1"}) =>
         LET n == Cardinality({ k \in Delivered : BothUnuseful(stream[k]) })
         IN  IF UnusefulFiltered = 0
             THEN stats.uselessReads = 2 * n /\ stats.filtered = 0
             ELSE stats.uselessReads = 0 /\ stats.filtered = 2 * n

\* C13: totalPairsForBarcode never exceeds maxBarcodeSize and every pair the
\* supplier delivers is written into a slot inside the arrays, the delivery
\* that follows the maxBarcodeSize-th accepted pair included.
BufferingInBounds ==
    /\ totalPairsForBarcode <= MaxBarcodeSize
    /\ pc # "ub"

\* C14: on both paths, when a pair with mismatched IDs is delivered the
\* worker ends the process before anything of that pair is written, unless
\* ignoreMismatchedIDs is set; with ignoreMismatchedIDs no ID check ends
\* the process.  (A run that has written outside the arrays is left to
\* BufferingInBounds.)
MismatchFatal ==
    pc # "ub" =>
      /\ (~opt.ignoreMismatchedIDs /\ \E k \in Delivered : ~stream[k].idsMatch) =>
           /\ pc = "exit"
           /\ \A j \in DOMAIN written : stream[written[j].pair].idsMatch
      /\ opt.ignoreMismatchedIDs => pc # "exit"

\* The pair passes the filter as an unaligned pair: each mate is NotFound
\* and is too short exactly when it is not useful.
PassesUnaligned(pair) ==
    LET pass0 == passFilter(opt.filter, NotFound, ~IsUseful(pair.r0), FALSE)
        pass1 == passFilter(opt.filter, NotFound, ~IsUseful(pair.r1), FALSE)
    IN  IF opt.filterBoth THEN pass0 /\ pass1 ELSE pass0 \/ pass1

\* The pairs the index-absent loop has dealt with: those delivered, less the
\* one that ended the process.
Handled == IF pc = "exit" THEN 1 .. (nDelivered - 1) ELSE Delivered

\* C15: without an index no arena is allocated and no stage is called; with
\* a writer present, a pair is handed to the writer once, with one record
\* whose statuses are NotFound and whose locations are invalid, if it passes
\* the filter, and not at all if it does not.
FastPathEmission ==
    (opt.supplier /\ ~opt.extension /\ ~opt.index) =>
      /\ arena = "none" /\ live = {}
      /\ calls.first = 0 /\ ~calls.second /\ ~calls.third
      /\ \A j \in DOMAIN written : written[j].recs = << UnalignedRecord >>
      /\ opt.writer =>
           \A k \in Handled :
             Cardinality({ j \in DOMAIN written : written[j].pair = k })
               = IF PassesUnaligned(stream[k]) THEN 1 ELSE 0

\* The two mates' filter results combined: both must pass when the flag is
\* set, either one otherwise.
BothOrEither(flag, a, b) == (flag /\ a /\ b) \/ (~flag /\ (a \/ b))

\* At the no-index path a pair is written exactly if its mates' results
\* combine to pass.
FastPathSite ==
    (pc = "fast" /\ pc' = "fast" /\ opt.writer) =>
      LET kind == stream[nDelivered + 1]
      IN  (Len(written') = Len(written) + 1) <=>
            BothOrEither(opt.filterBoth,
                         passFilter(opt.filter, NotFound, IsUseful(kind.r0), FALSE),
                         passFilter(opt.filter, NotFound, IsUseful(kind.r1), FALSE))

\* At the both-unuseful branch of the buffering loop the pair is counted as
\* useless, not as filtered, exactly if its mates' results combine to pass.
UnusefulSite ==
    (pc = "buffer" /\ pc' = "buffer" /\ nDelivered' = nDelivered + 1
       /\ totalPairsForBarcode' = totalPairsForBarcode) =>
      /\ (stats'.uselessReads = stats.uselessReads + 2) <=>
            BothOrEither(opt.filterBoth,
                         passFilter(opt.filter, NotFound, TRUE, FALSE),
                         passFilter(opt.filter, NotFound, TRUE, FALSE))
      /\ (stats'.uselessReads = stats.uselessReads) <=>
            (stats'.filtered = stats.filtered + 2)

\* In the filter loop of the emitter a record of the buffer stays exactly if
\* its mates' results combine to pass.
EmitterSite ==
    (pc = "filter" /\ pc' = "filter" /\ i < Len(results[pairIdx].data)) =>
      LET rec == results[pairIdx].data[i + 1]
          secondary == i # 0 \/ ~firstIsPrimary
      IN  (i' = i + 1) <=>
            BothOrEither(opt.filterBoth,
                         passFilter(opt.filter, rec.status[1], ~useful0[pairIdx], secondary),
                         passFilter(opt.filter, rec.status[2], ~useful1[pairIdx], secondary))

\* The flag is unset before the command line is parsed, parsing "-F b" sets
\* it, and nothing else changes it.
FlagFromCommandLine ==
    /\ (pc = "parse" /\ argn = 1) => ~opt.filterBoth
    /\ (pc = "parse" /\ pc' = "parse" /\ argn < Len(argv)
          /\ argv[argn] = "-F" /\ argv[argn + 1] = "b") => opt'.filterBoth
    /\ (opt'.filterBoth # opt.filterBoth) =>
          /\ pc = "parse" /\ argn < Len(argv)
          /\ argv[argn] = "-F" /\ argv[argn + 1] = "b"

\* C16: each of the three filter sites (the no-index path, the both-unuseful
\* branch of the buffering loop, the per-pair filter loop of the emitter)
\* combines the two mates' passFilter results with AND when
\* FilterBothMatesMatch is set and with OR when it is not; the flag is unset
\* by default and is set only by parsing "-F b".
FilterCombination ==
    [][FastPathSite /\ UnusefulSite /\ EmitterSite /\ FlagFromCommandLine]_vars

\* "-F b" was parsed, and the emitter dropped the primary of a pair because
\* one of its mates did not pass.
FilterCombinationWitness ==
    /\ opt.filterBoth
    /\ argn = 0
    /\ pc = "write"
    /\ ~firstIsPrimary
    /\ Len(results[pairIdx].data) > 0

\* The index of the first secondary among the records of a writePairs call.
FirstSecondary(call) == IF call.firstIsPrimary THEN 2 ELSE 1

\* C17: for every pair, the secondary records handed to the writer are in
\* non-decreasing score order, and each is within
\* maxSecondaryAlignmentAdditionalEditDistance of the score of the primary
\* the aligner chose, whatever records the filter loop removed.
SecondariesSorted ==
    \A p \in Batch : \A k \in CallsFor(p) :
      LET recs == written[k].recs
          secondaries == FirstSecondary(written[k]) .. Len(recs)
      IN  /\ \A a \in secondaries : \A b \in secondaries :
                a < b => recs[a].score <= recs[b].score
          /\ \A a \in secondaries :
                recs[a].score <= AfterStages(p)[1].score
                                   + opt.maxSecondaryAlignmentAdditionalEditDistance

\* The secondary single results stage 3 stored for mate m (1 or 2) of the
\* pair in slot p that pass the filter as secondary alignments.
PassingSingles(p, m) ==
    { r \in { tracker[p].singles[m][j] : j \in DOMAIN tracker[p].singles[m] } :
        passFilter(opt.filter, r.status, FALSE, TRUE) }

\* C18: for each pair and each mate, every single secondary result handed to
\* the writer is a result of that mate that passes the filter evaluated as a
\* secondary alignment, and the count handed over is the number of the
\* mate's results that pass; what is removed from the list of mate 0 neither
\* changes the list of mate 1 nor brings entries of mate 0 into it.
SingleFilterExact ==
    \A p \in Batch : \A k \in CallsFor(p) : \A m \in {1, 2} :
      LET handed == written[k].singles[m]
      IN  /\ \A j \in DOMAIN handed :
                /\ handed[j].mate = m - 1
                /\ passFilter(opt.filter, handed[j].status, FALSE, TRUE)
          /\ Len(handed) = Cardinality(PassingSingles(p, m))
          /\ { handed[j] : j \in DOMAIN handed } = PassingSingles(p, m)

\* A pair was written after the filter removed one of the two results of
\* mate 0 and one of the two results of mate 1.
SingleFilterExactWitness ==
    \E p \in Batch : \E k \in CallsFor(p) :
      /\ Len(tracker[p].singles[1]) = 2 /\ Len(tracker[p].singles[2]) = 2
      /\ Len(written[k].singles[1]) = 1 /\ Len(written[k].singles[2]) = 1

\* C19: the canaries of the arena are checked at the entry and at the exit
\* of each stage: a stage is not called, and the worker does not go on or
\* return after a stage call, unless allocator->checkCanaries() has run
\* since the last stage call used the arena.
CanariesAtStageBoundaries ==
    (arena = "live" /\ pc \in {"stage1", "stage2", "grow2", "stage3", "grow3", "emit", "done"}) =>
      calls.canary = "checked"

\* The worker reserves an arena on its way.
Reserves(w) == threads[w].entry = "align" /\ barrier.index

\* C20: with the timing barrier enabled, no worker reads its batch before
\* every worker that reserves an arena has reserved it, and no worker is
\* left waiting on the barrier when all the others have returned or wait as
\* well, whichever workers return before the barrier.
TimingBarrier ==
    barrier.useTimingBarrier =>
      /\ \A w \in DOMAIN threads :
           threads[w].pc = "reading" =>
             \A v \in DOMAIN threads : Reserves(v) => threads[v].pc # "start"
      /\ ~ /\ \E w \in DOMAIN threads : threads[w].pc = "waiting"
           /\ ~barrier.allowed
           /\ \A v \in DOMAIN threads : threads[v].pc \in {"waiting", "returned"}

\* The option at argv[argn] is parsed with its argument.
Parses(option) ==
    /\ pc = "parse" /\ pc' = "parse"
    /\ argn < Len(argv)
    /\ argv[argn] = option

\* C21: parsing "-maxClusterSpan N" sets maxClusterSpan to N and no other
\* option; parsing "-minCluster N" sets minPairsPerCluster to N and no other
\* option; the cluster aligner is constructed with the values so set.
ClusterOptionsFrame ==
    [][ /\ Parses("-maxClusterSpan") =>
             opt' = [opt EXCEPT !.maxClusterSpan = atoi(argv[argn + 1])]
        /\ Parses("-minCluster") =>
             opt' = [opt EXCEPT !.minPairsPerCluster = atoi(argv[argn + 1])]
        /\ (pc = "start" /\ pc' = "buffer") =>
             calls'.cluster = [minPairsPerCluster |-> opt.minPairsPerCluster,
                               maxClusterSpan |-> opt.maxClusterSpan] ]_vars

\* C22: at every call of align_second_stage and align_third_stage the buffer
\* of every pair is allocated large enough for its capacity: results[p] for
\* maxPairedSecondaryHits[p] + 1 PairedAlignmentResult records,
\* singleSecondaryResults[p] for maxSingleSecondaryHits[p]
\* SingleAlignmentResult records; initially and after every doubling.
BuffersHoldCapacity ==
    pc \in {"stage2", "stage3"} =>
      \A p \in Slots :
        /\ ~PairedOverrun(results[p], maxPairedSecondaryHits[p] + 1)
        /\ ~SingleOverrun(singleSecondaryResults[p], maxSingleSecondaryHits[p])

OutcomeReads ==
    stats.singleHits + stats.multiHits + stats.notFound + stats.uselessReads
      + stats.filtered

\* C24: read accounting is conserved: when the worker has completed,
\* stats->totalReads, which counts 2 for every pair delivered, equals the sum
\* of the outcome counters singleHits, multiHits, notFound, uselessReads and
\* filtered, on the indexed path and on the index-absent path.
ReadsConserved ==
    pc = "done" =>
      /\ stats.totalReads = 2 * nDelivered
      /\ stats.totalReads = OutcomeReads

\* C25: in recordAlignTogetherMapqAndTime, for every mapq in 0..70, every
\* non-negative time and every unsigned 32-bit nSmallHits and nLVCalls, the
\* bucket indices computed are below nTimeBuckets, nHitsBuckets and
\* nLVCallsBuckets: every histogram cell incremented is inside its array.
BucketsInRange ==
    hist.state = "recorded" =>
      /\ hist.mapq <= maxMapq
      /\ hist.timeBucket < nTimeBuckets
      /\ hist.nHitsBucket < nHitsBuckets
      /\ hist.nLVCallsBucket < nLVCallsBuckets
====
